---- MODULE Spec2Model ----
(***************************************************************************)
(* Model of term_grid (src/src/lib.rs): the layout planner                 *)
(* (Grid::new, width_dimensions, theoretical_max_num_lines,                *)
(* compute_dimensions) and the renderer (Display::fmt for Grid).           *)
(*                                                                         *)
(* A cell is represented by its display width (ansi_width is an external   *)
(* collaborator); a Filling::Text(t) is represented by the width of t.     *)
(* The rendered text is a sequence of write_str calls, each a pair         *)
(* <<kind, n>>: <<"cell", num>>, <<"sp", k>> (k spaces sliced from the     *)
(* padding buffer), <<"sep", w>> (the separator string, w columns wide),   *)
(* <<"tab", k>> (k tab characters) and <<"nl", 0>>.                        *)
(***************************************************************************)
EXTENDS Integers, Sequences, FiniteSets, TLC

\* ---------------------------------------------------------------- bounds
MaxCells == 4
MaxCellWidth == 1
MaxWidth == 5
MaxSep == 1
MaxTab == 2

\* ------------------------------------------------------------- constants
DEFAULT_SEPARATOR_SIZE == 2

Directions == {"LeftToRight", "TopToBottom"}

Fillings ==
    [kind : {"Spaces", "Text"}, n : 0..MaxSep] \cup [kind : {"Tabs"}, n : 0..MaxTab]

\* All sequences over S of length 0..n
SeqsUpTo(S, n) == UNION {[1..k -> S] : k \in 0..n}

VARIABLES
    widths,             \* Grid.widths: display width of each cell, in input order
    options,            \* Grid.options: [direction, filling, width]
    widest_cell_width,  \* Grid.widest_cell_width
    dimensions,         \* Grid.dimensions: [num_lines, widths]
    y, x, cursor,       \* Display::fmt: row, column, position on the line
    out,                \* Display::fmt: what was written to the formatter
    pc                  \* "init" | "built" | "fmt" | "done" | "panic"

vars == <<widths, options, widest_cell_width, dimensions, y, x, cursor, out, pc>>

\* ------------------------------------------------------------- helpers
\* s[1] + ... + s[k]
RECURSIVE SumFirst(_, _)
SumFirst(s, k) == IF k = 0 THEN 0 ELSE SumFirst(s, k - 1) + s[k]

\* iter().sum::<usize>()
SumSeq(s) == SumFirst(s, Len(s))

\* widths.iter().copied().max().unwrap_or(0)
MaxOrZero(s) ==
    IF s = <<>> THEN 0 ELSE CHOOSE m \in {s[i] : i \in 1..Len(s)} : \A i \in 1..Len(s) : s[i] <= m

\* s without its element at position k
RemoveAt(s, k) == [i \in 1..(Len(s) - 1) |-> IF i < k THEN s[i] ELSE s[i + 1]]

\* widths.sort_unstable_by(|a, b| b.cmp(a))
RECURSIVE SortDesc(_)
SortDesc(s) ==
    IF s = <<>> THEN <<>>
    ELSE LET k == CHOOSE i \in 1..Len(s) : \A j \in 1..Len(s) : s[j] <= s[i]
         IN  <<s[k]>> \o SortDesc(RemoveAt(s, k))

\* variant: rounds up even when the division is exact
div_ceil_AlwaysUp(lhs, rhs) ==
    (lhs \div rhs) + 1

div_ceil(lhs, rhs) ==
    LET d == lhs \div rhs
        r == lhs % rhs
    IN  IF r > 0 /\ rhs > 0 THEN d + 1 ELSE d

FillingWidth(f) ==
    CASE f.kind = "Spaces" -> f.n
      [] f.kind = "Text"   -> f.n
      [] f.kind = "Tabs"   -> DEFAULT_SEPARATOR_SIZE

None == {}
Some(d) == {d}
unwrap_or(opt, default) == IF opt = None THEN default ELSE CHOOSE d \in opt : TRUE

\* ------------------------------------------------------------- planner
total_width(dims, separator_width) ==
    IF Len(dims.widths) = 0 THEN 0
    ELSE SumSeq(dims.widths) + separator_width * (Len(dims.widths) - 1)

\* variant: the row-major mapping is used for both directions
ColumnOfIndex_RowMajorOnly(index, num_lines, num_columns) ==
    index % num_columns

\* column a cell index (0-based) is accumulated into by compute_dimensions
ColumnOfIndex(index, num_lines, num_columns) ==
    IF options.direction = "LeftToRight" THEN index % num_columns ELSE index \div num_lines

RECURSIVE ComputeLoop(_, _, _, _)
ComputeLoop(index, num_lines, num_columns, column_widths) ==
    IF index >= Len(widths) THEN column_widths
    ELSE LET c == ColumnOfIndex(index, num_lines, num_columns) + 1
             cell_width == widths[index + 1]
         IN  ComputeLoop(index + 1, num_lines, num_columns,
                 IF cell_width > column_widths[c]
                 THEN [column_widths EXCEPT ![c] = cell_width]
                 ELSE column_widths)

compute_dimensions(num_lines, num_columns) ==
    [num_lines |-> num_lines,
     widths    |-> ComputeLoop(0, num_lines, num_columns, [j \in 1..num_columns |-> 0])]

\* variant: the cell that no longer fits is counted as a column
RECURSIVE TheoreticalLoop_OffByOne(_, _, _, _)
TheoreticalLoop_OffByOne(sorted, i, col_total_width_so_far, maximum_width) ==
    IF i >= Len(sorted) THEN 1
    ELSE LET width == sorted[i + 1]
             adjusted_width == IF i = 0 THEN width ELSE width + FillingWidth(options.filling)
         IN  IF col_total_width_so_far + adjusted_width <= maximum_width
             THEN TheoreticalLoop_OffByOne(sorted, i + 1,
                                           col_total_width_so_far + adjusted_width,
                                           maximum_width)
             ELSE div_ceil(Len(widths), i + 1)

\* variant: the separator is not added to the cells after the first
RECURSIVE TheoreticalLoop_NoSeparator(_, _, _, _)
TheoreticalLoop_NoSeparator(sorted, i, col_total_width_so_far, maximum_width) ==
    IF i >= Len(sorted) THEN 1
    ELSE LET width == sorted[i + 1]
         IN  IF col_total_width_so_far + width <= maximum_width
             THEN TheoreticalLoop_NoSeparator(sorted, i + 1, col_total_width_so_far + width,
                                              maximum_width)
             ELSE div_ceil(Len(widths), i)

RECURSIVE TheoreticalLoop(_, _, _, _)
TheoreticalLoop(sorted, i, col_total_width_so_far, maximum_width) ==
    IF i >= Len(sorted) THEN 1
    ELSE LET width == sorted[i + 1]
             adjusted_width == IF i = 0 THEN width ELSE width + FillingWidth(options.filling)
         IN  IF col_total_width_so_far + adjusted_width <= maximum_width
             THEN TheoreticalLoop(sorted, i + 1, col_total_width_so_far + adjusted_width,
                                  maximum_width)
             ELSE div_ceil(Len(widths), i)

theoretical_max_num_lines(maximum_width) ==
    TheoreticalLoop(SortDesc(widths), 0, 0, maximum_width)

\* variant: the separators are not taken off the available width
RECURSIVE SearchLoop_IgnoreSeparators(_, _, _)
SearchLoop_IgnoreSeparators(num_lines, maximum_width, smallest_dimensions_yet) ==
    IF num_lines < 1 THEN smallest_dimensions_yet
    ELSE LET num_columns == div_ceil(Len(widths), num_lines)
             potential_dimensions == compute_dimensions(num_lines, num_columns)
         IN  IF SumSeq(potential_dimensions.widths) <= maximum_width
             THEN SearchLoop_IgnoreSeparators(num_lines - 1, maximum_width,
                                              Some(potential_dimensions))
             ELSE smallest_dimensions_yet

\* variant: no early abort on the separators' width; the usize subtraction
\* wraps around to a huge available width
RECURSIVE SearchLoop_NoSeparatorGuard(_, _, _)
SearchLoop_NoSeparatorGuard(num_lines, maximum_width, smallest_dimensions_yet) ==
    IF num_lines < 1 THEN smallest_dimensions_yet
    ELSE LET num_columns == div_ceil(Len(widths), num_lines)
             total_separator_width == (num_columns - 1) * FillingWidth(options.filling)
             adjusted_width == IF maximum_width >= total_separator_width
                               THEN maximum_width - total_separator_width
                               ELSE maximum_width - total_separator_width + 2 ^ 30
             potential_dimensions == compute_dimensions(num_lines, num_columns)
         IN  IF SumSeq(potential_dimensions.widths) <= adjusted_width
             THEN SearchLoop_NoSeparatorGuard(num_lines - 1, maximum_width,
                                              Some(potential_dimensions))
             ELSE smallest_dimensions_yet

\* for num_lines in (1..=theoretical_max_num_lines).rev()
RECURSIVE SearchLoop(_, _, _)
SearchLoop(num_lines, maximum_width, smallest_dimensions_yet) ==
    IF num_lines < 1 THEN smallest_dimensions_yet
    ELSE LET num_columns == div_ceil(Len(widths), num_lines)
             total_separator_width == (num_columns - 1) * FillingWidth(options.filling)
         IN  IF maximum_width < total_separator_width
             THEN SearchLoop(num_lines - 1, maximum_width, smallest_dimensions_yet)
             ELSE LET adjusted_width == maximum_width - total_separator_width
                      potential_dimensions == compute_dimensions(num_lines, num_columns)
                  IN  IF SumSeq(potential_dimensions.widths) <= adjusted_width
                      THEN SearchLoop(num_lines - 1, maximum_width, Some(potential_dimensions))
                      ELSE smallest_dimensions_yet

\* variant: the single-row shortcut returns the sorted clone of the widths
width_dimensions_SortedShortcut(maximum_width) ==
    IF MaxOrZero(widths) > maximum_width THEN None
    ELSE IF widths = <<>> THEN Some([num_lines |-> 0, widths |-> <<>>])
    ELSE IF Len(widths) = 1 THEN Some([num_lines |-> 1, widths |-> <<widths[1]>>])
    ELSE LET tmax == theoretical_max_num_lines(maximum_width)
         IN  IF tmax = 1 THEN Some([num_lines |-> 1, widths |-> SortDesc(widths)])
             ELSE SearchLoop(tmax, maximum_width, None)

\* variant: no special case for an empty cell list
width_dimensions_NoEmptyCase(maximum_width) ==
    IF MaxOrZero(widths) > maximum_width THEN None
    ELSE IF Len(widths) = 1 THEN Some([num_lines |-> 1, widths |-> <<widths[1]>>])
    ELSE LET tmax == theoretical_max_num_lines(maximum_width)
         IN  IF tmax = 1 THEN Some([num_lines |-> 1, widths |-> widths])
             ELSE SearchLoop(tmax, maximum_width, None)

width_dimensions(maximum_width) ==
    IF MaxOrZero(widths) > maximum_width THEN None
    ELSE IF widths = <<>> THEN Some([num_lines |-> 0, widths |-> <<>>])
    ELSE IF Len(widths) = 1 THEN Some([num_lines |-> 1, widths |-> <<widths[1]>>])
    ELSE LET tmax == theoretical_max_num_lines(maximum_width)
         IN  IF tmax = 1 THEN Some([num_lines |-> 1, widths |-> widths])
             ELSE SearchLoop(tmax, maximum_width, None)

\* ------------------------------------------------------------- Grid::new
Init ==
    /\ widths \in SeqsUpTo(0..MaxCellWidth, MaxCells)
    /\ options \in [direction : Directions, filling : Fillings, width : 0..MaxWidth]
    /\ widest_cell_width = 0
    /\ dimensions = [num_lines |-> 0, widths |-> <<>>]
    /\ y = 0 /\ x = 0 /\ cursor = 0
    /\ out = <<>>
    /\ pc = "init"

\* variant: the fallback is a single row
New_SingleRowFallback ==
    /\ pc = "init"
    /\ widest_cell_width' = MaxOrZero(widths)
    /\ dimensions' = unwrap_or(width_dimensions(options.width),
                               [num_lines |-> 1, widths |-> <<MaxOrZero(widths)>>])
    /\ pc' = "built"
    /\ UNCHANGED <<widths, options, y, x, cursor, out>>

New ==
    /\ pc = "init"
    /\ widest_cell_width' = MaxOrZero(widths)
    /\ dimensions' = unwrap_or(width_dimensions(options.width),
                               [num_lines |-> Len(widths), widths |-> <<MaxOrZero(widths)>>])
    /\ pc' = "built"
    /\ UNCHANGED <<widths, options, y, x, cursor, out>>

\* Grid::width, Grid::row_count, Grid::column_widths
GridWidth == total_width(dimensions, FillingWidth(options.filling))
row_count == dimensions.num_lines
column_widths == dimensions.widths

\* Grid::is_complete
is_complete == \A j \in 1..Len(dimensions.widths) : dimensions.widths[j] > 0

\* ------------------------------------------------------------- Display::fmt
\* (tab_size, separator) chosen from the filling
tab_size ==
    IF options.filling.kind = "Tabs" THEN options.filling.n ELSE 0

separator_len ==
    IF options.filling.kind = "Tabs" THEN DEFAULT_SEPARATOR_SIZE ELSE options.filling.n

\* variant: the buffer is only as long as the widest cell
padding_len_NoSeparator == widest_cell_width

\* " ".repeat(self.widest_cell_width + self.options.filling.width()).len()
padding_len == widest_cell_width + FillingWidth(options.filling)

\* (num, next) for the cell at row y, column x
CellNum(row, col) ==
    IF options.direction = "LeftToRight"
    THEN row * Len(dimensions.widths) + col
    ELSE row + dimensions.num_lines * col

\* variant: the two directions' strides are swapped
CellNext_Swapped ==
    IF options.direction = "LeftToRight" THEN dimensions.num_lines ELSE 1

CellNext ==
    IF options.direction = "LeftToRight" THEN 1 ELSE dimensions.num_lines

\* variant: a tab is taken to advance a full tab_size columns
RECURSIVE TabLoop_FullTab(_, _, _)
TabLoop_FullTab(cur, to, tabs) ==
    IF cur + 1 < to /\ (cur \div tab_size) # (to \div tab_size)
    THEN TabLoop_FullTab(cur + tab_size, to, tabs + 1)
    ELSE [tabs |-> tabs, cursor |-> cur]

\* variant: a tab is also used for a gap of a single column
RECURSIVE TabLoop_NoGapCheck(_, _, _)
TabLoop_NoGapCheck(cur, to, tabs) ==
    IF cur < to /\ (cur \div tab_size) # (to \div tab_size)
    THEN TabLoop_NoGapCheck(cur + (tab_size - (cur % tab_size)), to, tabs + 1)
    ELSE [tabs |-> tabs, cursor |-> cur]

\* while cursor + 1 < to && (cursor / tab_size) != (to / tab_size)
RECURSIVE TabLoop(_, _, _)
TabLoop(cur, to, tabs) ==
    IF cur + 1 < to /\ (cur \div tab_size) # (to \div tab_size)
    THEN TabLoop(cur + (tab_size - (cur % tab_size)), to, tabs + 1)
    ELSE [tabs |-> tabs, cursor |-> cur]

FmtBegin ==
    /\ pc = "built"
    /\ pc' = IF widths = <<>> \/ dimensions.num_lines = 0 THEN "done" ELSE "fmt"
    /\ y' = 0 /\ x' = 0 /\ cursor' = 0
    /\ UNCHANGED <<widths, options, widest_cell_width, dimensions, out>>

\* one iteration of `for x in 0..self.dimensions.widths.len()` that writes a cell
FmtCell ==
    /\ pc = "fmt"
    /\ x < Len(dimensions.widths)
    /\ CellNum(y, x) < Len(widths)
    /\ LET num == CellNum(y, x)
           next == CellNext
           last_in_row == (x = Len(dimensions.widths) - 1)
           width == widths[num + 1]
           col_width == dimensions.widths[x + 1]
       IN  IF col_width < width
           THEN \* col_width - width underflows
                /\ pc' = "panic"
                /\ UNCHANGED <<x, cursor, out>>
           ELSE LET padding_size == col_width - width
                    written == Append(out, <<"cell", num>>)
                IN  IF ~last_in_row /\ num + next < Len(widths)
                    THEN IF tab_size = 0
                         THEN IF padding_size > padding_len
                              THEN \* &padding[..padding_size] out of range
                                   /\ pc' = "panic"
                                   /\ out' = written
                                   /\ UNCHANGED <<x, cursor>>
                              ELSE /\ out' = written \o <<<<"sp", padding_size>>,
                                                          <<"sep", separator_len>>>>
                                   /\ x' = x + 1
                                   /\ UNCHANGED <<cursor, pc>>
                         ELSE LET cur0 == cursor + width
                                  to == cur0 + padding_size + DEFAULT_SEPARATOR_SIZE
                                  r == TabLoop(cur0, to, 0)
                                  withTabs == IF r.tabs # 0
                                              THEN Append(written, <<"tab", r.tabs>>)
                                              ELSE written
                              IN  IF r.cursor # to
                                  THEN IF r.cursor > to \/ to - r.cursor > padding_len
                                       THEN \* &padding[..(to - cursor)] out of range
                                            /\ pc' = "panic"
                                            /\ out' = withTabs
                                            /\ cursor' = r.cursor
                                            /\ UNCHANGED x
                                       ELSE /\ out' = Append(withTabs, <<"sp", to - r.cursor>>)
                                            /\ cursor' = to
                                            /\ x' = x + 1
                                            /\ UNCHANGED pc
                                  ELSE /\ out' = withTabs
                                       /\ cursor' = r.cursor
                                       /\ x' = x + 1
                                       /\ UNCHANGED pc
                    ELSE /\ out' = written
                         /\ x' = x + 1
                         /\ UNCHANGED <<cursor, pc>>
    /\ UNCHANGED <<widths, options, widest_cell_width, dimensions, y>>

\* the row's loop over x ends (all columns done, or `break` where the cells
\* end), the line terminator is written and the next row starts
FmtEndRow ==
    /\ pc = "fmt"
    /\ \/ x >= Len(dimensions.widths)
       \/ CellNum(y, x) >= Len(widths)
    /\ out' = Append(out, <<"nl", 0>>)
    /\ y' = y + 1
    /\ x' = 0
    /\ cursor' = 0
    /\ pc' = IF y + 1 < dimensions.num_lines THEN "fmt" ELSE "done"
    /\ UNCHANGED <<widths, options, widest_cell_width, dimensions>>

Next == New \/ FmtBegin \/ FmtCell \/ FmtEndRow

Spec == Init /\ [][Next]_vars

\* ============================================================= properties
N == Len(widths)
SepWidth == FillingWidth(options.filling)
Feasible == MaxOrZero(widths) <= options.width

CeilDiv(a, b) == (a + b - 1) \div b

\* column of cell index i (0-based) in a grid of R rows and C columns
MapColumn(i, R, C) ==
    IF options.direction = "LeftToRight" THEN i % C ELSE i \div R

\* widths of the columns of the arrangement with R rows: each column as wide
\* as the widest cell mapped to it
ArrangedWidths(R) ==
    LET C == CeilDiv(N, R)
    IN  [j \in 1..C |->
            LET S == {widths[i + 1] : i \in {k \in 0..(N - 1) : MapColumn(k, R, C) = j - 1}}
            IN  IF S = {} THEN 0 ELSE CHOOSE m \in S : \A v \in S : v <= m]

FitsIn(R, W) ==
    SumSeq(ArrangedWidths(R)) + SepWidth * (CeilDiv(N, R) - 1) <= W

\* C1: for at least two cells whose widest is <= the maximum width, the row
\* count of the plan is the smallest R in 1..N whose arrangement fits
C1_SmallestRowCount ==
    (pc = "built" /\ N >= 2 /\ Feasible) =>
        /\ FitsIn(row_count, options.width)
        /\ \A R \in 1..(row_count - 1) : ~FitsIn(R, options.width)

\* C2: a returned plan never exceeds the maximum width, and neither does
\* Grid::width() of a grid whose widest cell fits
C2_PlanFits ==
    (pc = "built") =>
        /\ \A d \in width_dimensions(options.width) :
               total_width(d, SepWidth) <= options.width
        /\ Feasible => GridWidth <= options.width

C2_Witness ==
    /\ pc = "built" /\ Feasible
    /\ row_count >= 2 /\ Len(column_widths) >= 2
    /\ SepWidth >= 1
    /\ GridWidth = options.width

\* C3: width_dimensions returns None exactly when the widest cell is wider
\* than the maximum width
C3_NoneIffTooWide ==
    (pc = "built") =>
        ((width_dimensions(options.width) = None) <=> (MaxOrZero(widths) > options.width))

C3_Witness ==
    /\ pc = "built" /\ N >= 3
    /\ MaxOrZero(widths) = options.width
    /\ theoretical_max_num_lines(options.width) >= 2
    /\ width_dimensions(options.width) # None

\* C4: a widest cell wider than options.width gives one column as wide as
\* the widest cell, one cell per row, and no panic
C4_Fallback ==
    (pc # "init" /\ ~Feasible) =>
        /\ row_count = N
        /\ column_widths = <<MaxOrZero(widths)>>
        /\ pc # "panic"

C4_Witness ==
    /\ pc = "done" /\ ~Feasible /\ N >= 2
    /\ options.direction = "TopToBottom"

\* C5: the renderer writes a cell in the column the planner put it in, so
\* the column is at least as wide as the cell and col_width - width does
\* not underflow
C5_NoUnderflow ==
    /\ (pc = "fmt" /\ x < Len(dimensions.widths) /\ CellNum(y, x) < N) =>
          /\ MapColumn(CellNum(y, x), dimensions.num_lines, Len(dimensions.widths)) = x
          /\ dimensions.widths[x + 1] >= widths[CellNum(y, x) + 1]
          /\ dimensions.widths = ArrangedWidths(dimensions.num_lines) \/ ~Feasible
    /\ pc # "panic"

C5_Witness ==
    /\ pc = "fmt" /\ Feasible
    /\ y >= 1 /\ x >= 1 /\ CellNum(y, x) < N
    /\ options.direction = "TopToBottom"
    /\ dimensions.widths[x + 1] > widths[CellNum(y, x) + 1]

IsFiller(t) == t[1] \in {"sp", "sep", "tab"}

\* column the renderer writes cell num in
RenderColumn(num) ==
    IF options.direction = "LeftToRight"
    THEN num % Len(dimensions.widths)
    ELSE num \div dimensions.num_lines

NextInRow(num) ==
    IF options.direction = "LeftToRight" THEN num + 1 ELSE num + row_count

\* position of the last cell written before position k
PrevCellPos(k) ==
    CHOOSE i \in 1..(k - 1) : out[i][1] = "cell" /\ \A j \in (i + 1)..(k - 1) : out[j][1] # "cell"

\* C7: the line terminator directly follows the last cell of the row;
\* filler follows a cell only if the cell is not in the last column and the
\* next cell of the row exists, and then that cell is written next
C7_NoTrailingFiller ==
    \A k \in 1..Len(out) :
        /\ (out[k][1] = "nl" /\ k > 1) => out[k - 1][1] \in {"cell", "nl"}
        /\ IsFiller(out[k]) =>
              LET c == out[PrevCellPos(k)][2]
              IN  /\ RenderColumn(c) # Len(column_widths) - 1
                  /\ NextInRow(c) < N
                  /\ (pc = "done" \/ k < Len(out)) =>
                        /\ k < Len(out)
                        /\ \/ IsFiller(out[k + 1])
                           \/ out[k + 1] = <<"cell", NextInRow(c)>>

C7_Witness ==
    /\ pc = "done" /\ Feasible
    /\ options.direction = "TopToBottom"
    /\ row_count >= 2 /\ Len(column_widths) >= 2
    /\ N % row_count # 0
    /\ \E k \in 1..Len(out) : IsFiller(out[k])

\* visual column after a run of k tabs from column c, tab stops every ts
RECURSIVE AfterTabs(_, _, _)
AfterTabs(c, k, ts) == IF k = 0 THEN c ELSE AfterTabs((c \div ts + 1) * ts, k - 1, ts)

\* visual column of the terminal cursor after the first k writes
RECURSIVE ColAfter(_)
ColAfter(k) ==
    IF k = 0 THEN 0
    ELSE LET c == ColAfter(k - 1)
             t == out[k]
         IN  CASE t[1] = "cell" -> c + widths[t[2] + 1]
               [] t[1] = "sp"   -> c + t[2]
               [] t[1] = "sep"  -> c + t[2]
               [] t[1] = "tab"  -> AfterTabs(c, t[2], options.filling.n)
               [] t[1] = "nl"   -> 0

\* where column col starts when the grid is rendered with spaces
RECURSIVE ExpectedStart(_)
ExpectedStart(col) ==
    IF col = 0 THEN 0
    ELSE ExpectedStart(col - 1) + dimensions.widths[col] + SepWidth

\* C8: with tab filling, tabs and spaces bring the visual cursor exactly to
\* the start of the next column, so every cell starts where it starts with
\* space filling
C8_TabsReachTarget ==
    (options.filling.kind = "Tabs" /\ options.filling.n > 0) =>
        /\ \A k \in 1..Len(out) :
              out[k][1] = "cell" => ColAfter(k - 1) = ExpectedStart(RenderColumn(out[k][2]))
        /\ (pc = "fmt" /\ Len(out) > 0 /\ IsFiller(out[Len(out)])) =>
              /\ ColAfter(Len(out)) = ExpectedStart(x)
              /\ cursor = ColAfter(Len(out))

C8_Witness ==
    /\ pc = "done"
    /\ options.filling.kind = "Tabs" /\ options.filling.n > 0
    /\ \E k \in 1..(Len(out) - 2) :
          /\ out[k][1] = "tab" /\ out[k][2] >= 2
          /\ out[k + 1][1] = "sp"
          /\ out[k + 2][1] = "cell"

PlanRows(W) == (CHOOSE d \in width_dimensions(W) : TRUE).num_lines

\* C9: a plan at width W implies a plan at every larger width, with no
\* more rows
C9_Monotone ==
    (pc = "built" /\ width_dimensions(options.width) # None) =>
        \A W2 \in (options.width + 1)..(MaxWidth + 1) :
            LET wider == width_dimensions(W2)
            IN  /\ wider # None
                /\ \A d \in wider : d.num_lines <= row_count

C9_Witness ==
    /\ pc = "built" /\ N >= 3
    /\ width_dimensions(options.width) # None
    /\ \E W2 \in (options.width + 1)..(MaxWidth + 1) :
          /\ PlanRows(W2) < PlanRows(options.width)
          /\ PlanRows(W2) >= 2

\* C10: a grid of zero cells has no rows, no columns, width 0 and renders
\* to the empty string
C10_Empty ==
    (pc # "init" /\ N = 0) =>
        /\ row_count = 0
        /\ column_widths = <<>>
        /\ GridWidth = 0
        /\ out = <<>>
        /\ pc \in {"built", "done"}

C10_Witness ==
    /\ pc = "done" /\ N = 0
    /\ options.filling.kind = "Tabs"
    /\ options.width = 0

\* ------------------------------------------------- column boundaries
\* a cell was written at position k and filler follows it
BoundaryAt(k) ==
    /\ out[k][1] = "cell"
    /\ k < Len(out)
    /\ IsFiller(out[k + 1])

\* number of tab characters / literal spaces written after the cell at k
TabsAfter(k) ==
    IF out[k + 1][1] = "tab" THEN out[k + 1][2] ELSE 0

SpacesAfter(k) ==
    LET p == IF out[k + 1][1] = "tab" THEN k + 2 ELSE k + 1
    IN  IF p <= Len(out) /\ out[p][1] = "sp" THEN out[p][2] ELSE 0

\* visual column where the cell at k ends, and where the next column starts
EndOfCell(k) == ExpectedStart(RenderColumn(out[k][2])) + widths[out[k][2] + 1]
TargetOf(k) == ExpectedStart(RenderColumn(out[k][2]) + 1)

\* number of multiples of ts in (c, t]
TabStopsBetween(c, t, ts) == (t \div ts) - (c \div ts)

TabFilling == options.filling.kind = "Tabs" /\ options.filling.n >= 1

C12_SingleRow ==
    (pc = "built" /\ N >= 1) =>
        /\ SumSeq(widths) + SepWidth * (N - 1) <= options.width =>
              /\ row_count = 1
              /\ column_widths = widths
        /\ (N = 1 /\ Feasible) =>
              /\ row_count = 1
              /\ column_widths = <<widths[1]>>
              /\ GridWidth = widths[1]

C12_Witness ==
    /\ pc = "built" /\ N >= 3
    /\ SumSeq(widths) + SepWidth * (N - 1) = options.width
    /\ SepWidth >= 1
    /\ widths[1] < widths[N]
    /\ row_count = 1

\* C13: with at least two cells, each no wider than the maximum width, and
\* a separator wider than the maximum width, every candidate with two or
\* more columns is skipped and the plan is one column of N rows
C13_HugeSeparator ==
    (pc = "built" /\ N >= 2 /\ Feasible /\ SepWidth > options.width) =>
        /\ width_dimensions(options.width) # None
        /\ row_count = N
        /\ column_widths = <<MaxOrZero(widths)>>

C13_Witness ==
    /\ pc = "built" /\ N >= 3 /\ Feasible
    /\ SepWidth > options.width
    /\ MaxOrZero(widths) >= 1
    /\ options.direction = "LeftToRight"

\* some cell is mapped to column j (0-based) of the plan
ColumnHasCell(j) ==
    \E i \in 0..(N - 1) : MapColumn(i, row_count, Len(column_widths)) = j

\* C14: is_complete() is true iff every column width is nonzero, and it is
\* false only when some column of the plan has no cell assigned to it
C14_IncompleteOnlyIfEmptyColumn ==
    (pc = "built") =>
        /\ is_complete <=> (\A j \in 1..Len(column_widths) : column_widths[j] # 0)
        /\ ~is_complete => \E j \in 0..(Len(column_widths) - 1) : ~ColumnHasCell(j)

\* positions of the output where cell i was written
WrittenAt(i) == {k \in 1..Len(out) : out[k] = <<"cell", i>>}

\* C15: the rendered rows partition the cells: each cell is written exactly
\* once, there are row_count lines, and no line is blank
C15_RowsPartitionCells ==
    /\ (pc # "init" /\ N > 0) =>
          /\ options.direction = "LeftToRight" => (row_count - 1) * Len(column_widths) < N
          /\ options.direction = "TopToBottom" => row_count <= N
    /\ \A i \in 0..(N - 1) : Cardinality(WrittenAt(i)) <= 1
    /\ \A k \in 1..Len(out) : out[k][1] = "nl" => (k > 1 /\ out[k - 1][1] = "cell")
    /\ (pc = "done" /\ N > 0) =>
          /\ \A i \in 0..(N - 1) : Cardinality(WrittenAt(i)) = 1
          /\ Cardinality({k \in 1..Len(out) : out[k][1] = "nl"}) = row_count

C15_Witness ==
    /\ pc = "done" /\ Feasible
    /\ N = 3 /\ row_count = 2 /\ Len(column_widths) = 2
    /\ options.direction = "LeftToRight"
    /\ out[Len(out) - 1] = <<"cell", 2>>

\* C16: every slice of the space buffer is within its length
\* widest_cell_width + separator width, and no write panics
C16_PaddingSlicesInBounds ==
    /\ \A k \in 1..Len(out) : out[k][1] = "sp" => out[k][2] <= padding_len
    /\ (pc = "fmt" /\ x < Len(dimensions.widths) /\ CellNum(y, x) < N) =>
          LET width == widths[CellNum(y, x) + 1]
              padding_size == dimensions.widths[x + 1] - width
              to == cursor + width + padding_size + DEFAULT_SEPARATOR_SIZE
          IN  /\ padding_size >= 0
              /\ tab_size = 0 => padding_size <= padding_len
              /\ tab_size > 0 =>
                    /\ TabLoop(cursor + width, to, 0).cursor <= to
                    /\ to - TabLoop(cursor + width, to, 0).cursor <= padding_len
    /\ pc = "panic" => x < Len(dimensions.widths) /\ dimensions.widths[x + 1] < widths[CellNum(y, x) + 1]

C16_Witness ==
    /\ pc = "done" /\ Feasible
    /\ tab_size > 0
    /\ \E k \in 1..Len(out) :
          /\ BoundaryAt(k)
          /\ widths[out[k][2] + 1] < column_widths[RenderColumn(out[k][2]) + 1]
          /\ TabsAfter(k) >= 1
          /\ SpacesAfter(k) >= 1

====
